---- MODULE Spec2Model ----
(***************************************************************************)
(* Model of the Backtesting package: the oracle signal source              *)
(* (Backtesting/predictors.py), the three position sizers                  *)
(* (Backtesting/strategies.py) and the simulation engine with its metrics  *)
(* (Backtesting/backtester.py).                                            *)
(*                                                                         *)
(* Numbers.  The program computes with IEEE doubles.  The model computes   *)
(* with exact rationals <<n, d>> in lowest terms with d > 0, extended by   *)
(* the three non-finite values a float division produces: <<1, 0>> (inf),  *)
(* <<-1, 0>> (-inf) and <<0, 0>> (nan).  Rounding is not modelled.         *)
(*                                                                         *)
(* Dates.  The engine and the predictor both index their rows by Date and  *)
(* sort the index, so a series is modelled as a sequence and a date as a   *)
(* position 1..Len in it.                                                  *)
(***************************************************************************)
EXTENDS Integers, Sequences, FiniteSets, TLC

VARIABLES
    data,             \* Backtester.data: rows [Close, close_diff] in date order
    predictions,      \* OraclePredictor.predictions: date -> signal
    strategy,         \* Backtester.strategy: [kind, percentage, error_rate]
    initial_capital,  \* Backtester.initial_capital
    results,          \* Backtester.results: None or a BacktestResults record
    pc,               \* position of run(): "idle", "loop", "returned", "raised"
    i,                \* run(): index of the next date of the loop (1-based)
    current_capital,  \* run(): local current_capital
    equity_history,   \* run(): local equity_history
    trades,           \* run(): local trades
    outcome,          \* what the last run() gave its caller
    call              \* last direct call of a sizer method and what it gave

vars == <<data, predictions, strategy, initial_capital, results, pc, i,
          current_capital, equity_history, trades, outcome, call>>

engineVars == <<data, predictions, strategy, initial_capital, results, pc, i,
                current_capital, equity_history, trades, outcome>>

----------------------------------------------------------------------------
(* Bounds and input sets *)

\* longest generated price series
MaxLen == 3

\* close prices of the generated series (0 is an invalid price)
Prices == {0, 1, 3}

\* sign representatives of the close_diff column
Diffs == {-1, 0, 1}

\* the spec's scenario series: monotonic uptrend, single short trade, and a
\* price that doubles on the first date
Uptrend == <<100, 110, 121>>
ShortTrade == <<50, 40>>
PriceDoubles == <<1, 2>>

None == "None"

----------------------------------------------------------------------------
(* Float arithmetic as extended rationals *)

Abs(x) == IF x < 0 THEN -x ELSE x

Sgn(x) == IF x < 0 THEN -1 ELSE IF x > 0 THEN 1 ELSE 0

RECURSIVE GCD(_, _)
GCD(a, b) == IF b = 0 THEN a ELSE GCD(b, a % b)

Norm(n, d) ==
    IF d = 0 THEN <<Sgn(n), 0>>
    ELSE LET g == GCD(Abs(n), Abs(d))
         IN  <<(Sgn(d) * n) \div g, Abs(d) \div g>>

R(n) == <<n, 1>>
Frac(n, d) == Norm(n, d)

NaN == <<0, 0>>
Zero == <<0, 1>>
One == <<1, 1>>
Hundred == <<100, 1>>

IsNaN(a) == a = NaN
Finite(a) == a[2] # 0

FNeg(a) == <<-a[1], a[2]>>

FAdd(a, b) ==
    IF a[2] = 0 /\ b[2] = 0 THEN (IF a[1] = b[1] THEN a ELSE NaN)
    ELSE IF a[2] = 0 THEN a
    ELSE IF b[2] = 0 THEN b
    ELSE Norm(a[1] * b[2] + b[1] * a[2], a[2] * b[2])

FSub(a, b) == FAdd(a, FNeg(b))

FMul(a, b) == Norm(a[1] * b[1], a[2] * b[2])

FDiv(a, b) ==
    IF b[1] = 0
    THEN (IF b[2] = 0 THEN NaN ELSE Norm(a[1], 0))
    ELSE Norm(a[1] * b[2] * Sgn(b[1]), a[2] * Abs(b[1]))

FLt(a, b) ==
    /\ ~IsNaN(a)
    /\ ~IsNaN(b)
    /\ IF a[2] = 0 /\ b[2] = 0 THEN a[1] < b[1]
       ELSE a[1] * b[2] < b[1] * a[2]

FGt(a, b) == FLt(b, a)

FLe(a, b) == ~IsNaN(a) /\ ~IsNaN(b) /\ ~FLt(b, a)

----------------------------------------------------------------------------
(* Signal source: OraclePredictor *)

\* faulty variant: the date's own close_diff is read, not the next date's
generate_predictions_OwnDiff(d) ==
    [t \in 1..Len(d) |->
        IF t < Len(d)
        THEN (IF d[t].close_diff > 0 THEN 1
              ELSE IF d[t].close_diff < 0 THEN -1
              ELSE 0)
        ELSE 0]

\* faulty variant: the final date is left without a prediction
generate_predictions_NoFinalDate(d) ==
    [t \in 1..(Len(d) - 1) |->
        IF d[t + 1].close_diff > 0 THEN 1
        ELSE IF d[t + 1].close_diff < 0 THEN -1
        ELSE 0]

\* OraclePredictor._generate_predictions over the predictor's own rows d:
\* date t gets the sign of the NEXT row's close_diff, the last date gets 0.
generate_predictions(d) ==
    [t \in 1..Len(d) |->
        IF t < Len(d)
        THEN (IF d[t + 1].close_diff > 0 THEN 1
              ELSE IF d[t + 1].close_diff < 0 THEN -1
              ELSE 0)
        ELSE 0]

\* OraclePredictor.get_available_dates: the index of the predictor's rows
get_available_dates(d) == 1..Len(d)

\* OraclePredictor.predict: KeyError when the date has no prediction.
predict_raises(preds, date) == date \notin DOMAIN preds

predict(preds, date) == preds[date]

----------------------------------------------------------------------------
(* Position sizers: AllInStrategy, FixedPercentageStrategy,                *)
(* StochasticErrorStrategy.  A call gives [raised, value]: raised is the   *)
(* ValueError of an invalid price, value the returned position.            *)

Raise == [raised |-> TRUE, value |-> NaN]
Return(v) == [raised |-> FALSE, value |-> v]

AllIn == [kind |-> "AllIn", percentage |-> None, error_rate |-> None]
Fixed(f) == [kind |-> "Fixed", percentage |-> f, error_rate |-> None]
Stochastic(p, f) == [kind |-> "Stochastic", percentage |-> f, error_rate |-> p]

\* faulty variant: a capital <= 0 is sized like any other
AllIn_calculate_position_NoCapitalCheck(signal, capital, price) ==
    IF signal = 0 THEN Return(Zero)
    ELSE IF FLe(price, Zero) THEN Raise
    ELSE LET units == FDiv(capital, price)
         IN  Return(FMul(R(signal), units))

\* faulty variant: the signal's direction is not applied to the units
AllIn_calculate_position_Unsigned(signal, capital, price) ==
    IF signal = 0 THEN Return(Zero)
    ELSE IF FLe(price, Zero) THEN Raise
    ELSE IF FLe(capital, Zero) THEN Return(Zero)
    ELSE Return(FDiv(capital, price))

AllIn_calculate_position(signal, capital, price) ==
    IF signal = 0 THEN Return(Zero)
    ELSE IF FLe(price, Zero) THEN Raise
    ELSE IF FLe(capital, Zero) THEN Return(Zero)
    ELSE LET units == FDiv(capital, price)
         IN  Return(FMul(R(signal), units))

\* faulty variant: the check current_capital <= 0 is missing
Fixed_calculate_position_NoCapitalCheck(self, signal, capital, price) ==
    IF signal = 0 THEN Return(Zero)
    ELSE IF FLe(price, Zero) THEN Raise
    ELSE LET allocated_capital == FMul(capital, self.percentage)
             units == FDiv(allocated_capital, price)
         IN  Return(FMul(R(signal), units))

Fixed_calculate_position(self, signal, capital, price) ==
    IF signal = 0 THEN Return(Zero)
    ELSE IF FLe(price, Zero) THEN Raise
    ELSE IF FLe(capital, Zero) THEN Return(Zero)
    ELSE LET allocated_capital == FMul(capital, self.percentage)
             units == FDiv(allocated_capital, price)
         IN  Return(FMul(R(signal), units))

\* faulty variant: the signal is flipped when the draw equals error_rate too
Stochastic_calculate_position_FlipOnEqual(self, signal, capital, price, u) ==
    LET signal_copy == IF FLe(u, self.error_rate) /\ signal # 0
                       THEN -signal ELSE signal
    IN  IF signal_copy = 0 THEN Return(Zero)
        ELSE IF FLe(price, Zero) THEN Raise
        ELSE IF FLe(capital, Zero) THEN Return(Zero)
        ELSE LET allocated_capital == FMul(capital, self.percentage)
                 units == FDiv(allocated_capital, price)
             IN  Return(FMul(R(signal_copy), units))

\* u is the value random.random() returns for this call, 0 <= u < 1.
Stochastic_calculate_position(self, signal, capital, price, u) ==
    LET signal_copy == IF FLt(u, self.error_rate) /\ signal # 0
                       THEN -signal ELSE signal
    IN  IF signal_copy = 0 THEN Return(Zero)
        ELSE IF FLe(price, Zero) THEN Raise
        ELSE IF FLe(capital, Zero) THEN Return(Zero)
        ELSE LET allocated_capital == FMul(capital, self.percentage)
                 units == FDiv(allocated_capital, price)
             IN  Return(FMul(R(signal_copy), units))

\* strategy.calculate_position, dispatched on the sizer's class
calculate_position(self, signal, capital, price, u) ==
    IF self.kind = "AllIn" THEN AllIn_calculate_position(signal, capital, price)
    ELSE IF self.kind = "Fixed"
    THEN Fixed_calculate_position(self, signal, capital, price)
    ELSE Stochastic_calculate_position(self, signal, capital, price, u)

\* faulty variant: the price change is taken relative to the next price
AllIn_get_return_OverNextPrice(current_price, next_price, position) ==
    IF FGt(position, Zero)
    THEN FDiv(FSub(next_price, current_price), next_price)
    ELSE IF FLt(position, Zero)
    THEN FDiv(FSub(current_price, next_price), next_price)
    ELSE Zero

\* faulty variant: a zero position is treated as long (position >= 0)
AllIn_get_return_LongOnZero(current_price, next_price, position) ==
    IF FLe(Zero, position)
    THEN FDiv(FSub(next_price, current_price), current_price)
    ELSE FDiv(FSub(current_price, next_price), current_price)

AllIn_get_return(current_price, next_price, position) ==
    LET trade_return ==
            IF FGt(position, Zero)
            THEN FDiv(FSub(next_price, current_price), current_price)
            ELSE IF FLt(position, Zero)
            THEN FDiv(FSub(current_price, next_price), current_price)
            ELSE Zero
    IN  trade_return

\* faulty variant: a short position realizes the price change of a long one
Fixed_get_return_ShortAsLong(self, current_price, next_price, position) ==
    LET trade_return ==
            IF FGt(position, Zero) \/ FLt(position, Zero)
            THEN FDiv(FSub(next_price, current_price), current_price)
            ELSE Zero
    IN  FMul(trade_return, self.percentage)

\* faulty variant: the return is not scaled by the fraction
Fixed_get_return_Unscaled(self, current_price, next_price, position) ==
    IF FGt(position, Zero)
    THEN FDiv(FSub(next_price, current_price), current_price)
    ELSE IF FLt(position, Zero)
    THEN FDiv(FSub(current_price, next_price), current_price)
    ELSE Zero

Fixed_get_return(self, current_price, next_price, position) ==
    LET trade_return ==
            IF FGt(position, Zero)
            THEN FDiv(FSub(next_price, current_price), current_price)
            ELSE IF FLt(position, Zero)
            THEN FDiv(FSub(current_price, next_price), current_price)
            ELSE Zero
    IN  FMul(trade_return, self.percentage)

Stochastic_get_return(self, current_price, next_price, position) ==
    LET trade_return ==
            IF FGt(position, Zero)
            THEN FDiv(FSub(next_price, current_price), current_price)
            ELSE IF FLt(position, Zero)
            THEN FDiv(FSub(current_price, next_price), current_price)
            ELSE Zero
    IN  FMul(trade_return, self.percentage)

\* strategy._get_return, dispatched on the sizer's class
get_return(self, current_price, next_price, position) ==
    IF self.kind = "AllIn"
    THEN AllIn_get_return(current_price, next_price, position)
    ELSE IF self.kind = "Fixed"
    THEN Fixed_get_return(self, current_price, next_price, position)
    ELSE Stochastic_get_return(self, current_price, next_price, position)

----------------------------------------------------------------------------
(* Metrics: Backtester._calculate_metrics.  The two metrics that need a    *)
(* root are kept in exact symbolic form: the annualized return as          *)
(* [base, exponent] for (base ^ exponent - 1) * 100, the Sharpe ratio as   *)
(* [num, var] for num / sqrt(var) * sqrt(252).                             *)

RECURSIVE FSum(_)
FSum(xs) == IF xs = <<>> THEN Zero ELSE FAdd(xs[1], FSum(Tail(xs)))

\* np.mean of a non-empty list, Series.mean
FMean(xs) == FDiv(FSum(xs), R(Len(xs)))

\* Series.std() squared: the sample variance (ddof = 1), nan for one value
FVariance(xs) ==
    LET m == FMean(xs)
        sq == [k \in 1..Len(xs) |-> FMul(FSub(xs[k], m), FSub(xs[k], m))]
    IN  FDiv(FSum(sq), R(Len(xs) - 1))

\* the Capital column of an equity curve
CapitalColumn(equity_curve) ==
    [t \in 1..Len(equity_curve) |-> equity_curve[t].Capital]

\* line 227
TotalReturn(final_capital, initial) ==
    FMul(FDiv(FSub(final_capital, initial), initial), Hundred)

\* lines 230-237: years = n_days / 252
AnnualizedReturn(final_capital, initial, n_days) ==
    LET years == Frac(n_days, 252)
    IN  IF FGt(years, Zero)
        THEN [base |-> FDiv(final_capital, initial), exponent |-> FDiv(One, years)]
        ELSE [base |-> One, exponent |-> One]

\* lines 241 and 244: Capital.pct_change().dropna()
DailyReturns(capitals) ==
    LET pct == [k \in 1..(Len(capitals) - 1) |->
                   FSub(FDiv(capitals[k + 1], capitals[k]), One)]
        NotNaN(x) == ~IsNaN(x)
    IN  SelectSeq(pct, NotNaN)

\* faulty variant: the standard deviation is not tested
SharpeRatio_NoStdCheck(returns) ==
    IF Len(returns) > 0
    THEN [num |-> FMean(returns), var |-> FVariance(returns)]
    ELSE [num |-> Zero, var |-> One]

\* lines 245-248: std() > 0 exactly when the variance is > 0
SharpeRatio(returns) ==
    IF Len(returns) > 0 /\ FGt(FVariance(returns), Zero)
    THEN [num |-> FMean(returns), var |-> FVariance(returns)]
    ELSE [num |-> Zero, var |-> One]

\* Series.cummax at position t
RECURSIVE CumMax(_, _)
CumMax(capitals, t) ==
    IF t = 1 THEN capitals[1]
    ELSE LET before == CumMax(capitals, t - 1)
         IN  IF FGt(capitals[t], before) THEN capitals[t] ELSE before

\* Series.min: the least value that is not nan, nan when there is none
RECURSIVE NanMin(_)
NanMin(xs) ==
    IF xs = <<>> THEN NaN
    ELSE LET rest == NanMin(Tail(xs))
         IN  IF IsNaN(xs[1]) THEN rest
             ELSE IF IsNaN(rest) \/ FLt(xs[1], rest) THEN xs[1]
             ELSE rest

\* faulty variant: the drawdown is measured from the first capital, not the peak
MaxDrawdown_FromStart(capitals) ==
    LET drawdown == [t \in 1..Len(capitals) |->
                        FDiv(FSub(capitals[t], capitals[1]), capitals[1])]
    IN  FMul(NanMin(drawdown), Hundred)

\* lines 251-254
MaxDrawdown(capitals) ==
    LET drawdown == [t \in 1..Len(capitals) |->
                        FDiv(FSub(capitals[t], CumMax(capitals, t)),
                             CumMax(capitals, t))]
    IN  FMul(NanMin(drawdown), Hundred)

\* lines 258-259
WinningTrades(trade_list) ==
    LET Wins(t) == FGt(t.return_pct, Zero) IN SelectSeq(trade_list, Wins)

LosingTrades(trade_list) ==
    LET Loses(t) == FLt(t.return_pct, Zero) IN SelectSeq(trade_list, Loses)

ReturnPcts(trade_list) ==
    [k \in 1..Len(trade_list) |-> trade_list[k].return_pct]

\* faulty variant: a trade with return 0 counts as a win
WinRate_ZeroWins(trade_list) ==
    LET NotLoss(t) == FLe(Zero, t.return_pct)
    IN  IF trade_list # <<>>
        THEN FMul(FDiv(R(Len(SelectSeq(trade_list, NotLoss))),
                       R(Len(trade_list))), Hundred)
        ELSE Zero

\* lines 257, 261, 266
WinRate(trade_list) ==
    IF trade_list # <<>>
    THEN FMul(FDiv(R(Len(WinningTrades(trade_list))), R(Len(trade_list))),
              Hundred)
    ELSE Zero

\* lines 257, 263, 267
AvgWin(trade_list) ==
    IF trade_list # <<>> /\ WinningTrades(trade_list) # <<>>
    THEN FMean(ReturnPcts(WinningTrades(trade_list)))
    ELSE Zero

\* lines 257, 264, 268
AvgLoss(trade_list) ==
    IF trade_list # <<>> /\ LosingTrades(trade_list) # <<>>
    THEN FMean(ReturnPcts(LosingTrades(trade_list)))
    ELSE Zero

calculate_metrics(equity_curve, trade_list) ==
    LET final_capital == equity_curve[Len(equity_curve)].Capital
        initial == equity_curve[1].Capital
        n_days == Len(equity_curve)
        returns == DailyReturns(CapitalColumn(equity_curve))
    IN  [total_return |-> TotalReturn(final_capital, initial),
         annualized_return |-> AnnualizedReturn(final_capital, initial, n_days),
         sharpe_ratio |-> SharpeRatio(returns),
         max_drawdown |-> MaxDrawdown(CapitalColumn(equity_curve)),
         n_trades |-> Len(trade_list),
         win_rate |-> WinRate(trade_list),
         avg_win |-> AvgWin(trade_list),
         avg_loss |-> AvgLoss(trade_list),
         final_capital |-> final_capital,
         n_days |-> n_days]

----------------------------------------------------------------------------
(* Inputs of a run *)

Signals == {-1, 0, 1}

\* parameter values of the sizers (all inside [0, 1])
Fractions == {Zero, Frac(1, 2), One}

Strategies ==
    {AllIn} \cup {Fixed(f) : f \in Fractions}
            \cup {Stochastic(p, f) : p \in Fractions, f \in Fractions}

\* the sizers a run is made with
RunStrategies ==
    {AllIn, Fixed(Zero), Fixed(Frac(1, 2)),
     Stochastic(Frac(1, 2), Frac(1, 2)), Stochastic(Frac(1, 2), One)}

\* values of random.random(): with the error rates 0, 1/2 and 1 they give
\* every outcome of the comparison u < error_rate
Draws == {Zero, Frac(1, 2)}

\* starting capitals (the constructor admits only positive ones)
Capitals == {One, R(2)}

Series == UNION {[1..n -> Prices] : n \in 1..MaxLen} \cup {Uptrend, ShortTrade, PriceDoubles}

\* the rows of a DataFrame with Close column c and close_diff column d
Rows(c, d) == [t \in 1..Len(c) |-> [Close |-> c[t], close_diff |-> d[t]]]

NoCall == [method |-> "none"]
NoOutcome == [status |-> "none", value |-> <<>>]

\* the locals of run() when no call of run() is active
NoFrame ==
    /\ i' = 0
    /\ current_capital' = NaN
    /\ equity_history' = <<>>
    /\ trades' = <<>>

----------------------------------------------------------------------------
(* Simulation engine: Backtester *)

\* The state after OraclePredictor(pdata) and Backtester(data, predictor,
\* strategy, initial_capital).  The predictor is built from the first k rows
\* of the series (k = Len: from the same series, as in run_backtest.main).
\* The close_diff of the first row is never read and is fixed to 0.
Init ==
    \E c \in Series :
      \E d \in [1..Len(c) -> Diffs] :
        \E k \in 1..Len(c) :
          \E st \in RunStrategies :
            \E cap \in Capitals :
              /\ d[1] = 0
              /\ data = Rows(c, d)
              /\ predictions = generate_predictions(SubSeq(Rows(c, d), 1, k))
              /\ strategy = st
              /\ initial_capital = cap
              /\ results = <<>>
              /\ pc = "idle"
              /\ i = 0
              /\ current_capital = NaN
              /\ equity_history = <<>>
              /\ trades = <<>>
              /\ outcome = NoOutcome
              /\ call = NoCall

\* run(), lines 139-145: the locals are initialised
RunStart ==
    /\ pc \in {"idle", "returned", "raised"}
    /\ pc' = "loop"
    /\ i' = 1
    /\ current_capital' = initial_capital
    /\ equity_history' = <<>>
    /\ trades' = <<>>
    /\ outcome' = NoOutcome
    /\ UNCHANGED <<data, predictions, strategy, initial_capital, results, call>>

\* run(), line 150: predictor.predict raises KeyError; the frame is dropped
RaiseKeyError ==
    /\ pc = "loop"
    /\ i <= Len(data)
    /\ predict_raises(predictions, i)
    /\ pc' = "raised"
    /\ outcome' = [status |-> "KeyError", value |-> <<>>]
    /\ NoFrame
    /\ UNCHANGED <<data, predictions, strategy, initial_capital, results, call>>

\* faulty variant: the curve and ledger built so far are stored when the sizer raises
RaiseValueError_StoresPartial ==
    /\ pc = "loop"
    /\ i <= Len(data)
    /\ ~predict_raises(predictions, i)
    /\ \E u \in Draws :
         calculate_position(strategy, predict(predictions, i), current_capital,
                            R(data[i].Close), u).raised
    /\ pc' = "raised"
    /\ outcome' = [status |-> "ValueError", value |-> <<>>]
    /\ results' = <<[equity_curve |-> equity_history,
                     trades |-> trades,
                     metrics |-> [n_trades |-> Len(trades)],
                     initial_capital |-> initial_capital,
                     final_capital |-> current_capital]>>
    /\ NoFrame
    /\ UNCHANGED <<data, predictions, strategy, initial_capital, call>>

\* run(), line 156: strategy.calculate_position raises ValueError
RaiseValueError ==
    /\ pc = "loop"
    /\ i <= Len(data)
    /\ ~predict_raises(predictions, i)
    /\ \E u \in Draws :
         calculate_position(strategy, predict(predictions, i), current_capital,
                            R(data[i].Close), u).raised
    /\ pc' = "raised"
    /\ outcome' = [status |-> "ValueError", value |-> <<>>]
    /\ NoFrame
    /\ UNCHANGED <<data, predictions, strategy, initial_capital, results, call>>

\* run(), line 163: the date at (1-based) index idx of n dates has a successor
HasNext(idx, n) == idx < n

\* faulty variant: the realized return is added to the capital, not compounded
UpdateCapital_Additive(capital_before, trade_return) ==
    FAdd(capital_before, trade_return)

\* run(), line 170: the capital after the realized move
UpdateCapital(capital_before, trade_return) ==
    FMul(capital_before, FAdd(One, trade_return))

\* faulty variant: a trade is recorded for a neutral signal too
RecordTrade_Always(trade_list, signal, trade) == Append(trade_list, trade)

\* faulty variant: the trade is recorded with the capital before the update
RecordTrade_StaleCapital(trade_list, signal, trade) ==
    IF signal # 0
    THEN Append(trade_list,
                [trade EXCEPT !.capital_after = trade.capital_before])
    ELSE trade_list

\* run(), lines 173-183: only a non-neutral signal is recorded as a trade
RecordTrade(trade_list, signal, trade) ==
    IF signal # 0 THEN Append(trade_list, trade) ELSE trade_list

\* faulty variant: a date whose capital did not change gets no equity point
RecordEquity_SkipUnchanged(history, date, capital) ==
    IF history # <<>> /\ history[Len(history)].Capital = capital
    THEN history
    ELSE Append(history, [Date |-> date, Capital |-> capital])

\* run(), lines 186-189: the equity point of the date
RecordEquity(history, date, capital) ==
    Append(history, [Date |-> date, Capital |-> capital])

\* run(), lines 147-189: one iteration of the loop over the dates
Iterate ==
    /\ pc = "loop"
    /\ i <= Len(data)
    /\ ~predict_raises(predictions, i)
    /\ \E u \in Draws :
         LET date == i
             current_price == R(data[date].Close)
             signal == predict(predictions, date)
             capital_before == current_capital
             sized == calculate_position(strategy, signal, current_capital,
                                         current_price, u)
             position == sized.value
             has_next == HasNext(i, Len(data))
             next_price == R(data[IF has_next THEN i + 1 ELSE i].Close)
             trade_return == get_return(strategy, current_price, next_price,
                                        position)
             capital_after == IF has_next
                              THEN UpdateCapital(capital_before, trade_return)
                              ELSE capital_before
             trade == [date |-> date,
                       signal |-> signal,
                       price |-> current_price,
                       position |-> position,
                       capital_before |-> capital_before,
                       capital_after |-> capital_after,
                       return_pct |-> FMul(trade_return, Hundred)]
         IN  /\ ~sized.raised
             /\ current_capital' = capital_after
             /\ trades' = IF has_next
                          THEN RecordTrade(trades, signal, trade) ELSE trades
             /\ equity_history' = RecordEquity(equity_history, date, capital_after)
    /\ i' = i + 1
    /\ UNCHANGED <<data, predictions, strategy, initial_capital, results, pc,
                   outcome, call>>

\* run(), lines 191-206: the metrics are computed, the result stored and returned
Finish ==
    /\ pc = "loop"
    /\ i > Len(data)
    /\ LET equity_curve == equity_history
           metrics == calculate_metrics(equity_curve, trades)
           res == [equity_curve |-> equity_curve,
                   trades |-> trades,
                   metrics |-> metrics,
                   initial_capital |-> initial_capital,
                   final_capital |-> current_capital]
       IN  /\ results' = <<res>>
           /\ outcome' = [status |-> "returned", value |-> <<res>>]
    /\ pc' = "returned"
    /\ NoFrame
    /\ UNCHANGED <<data, predictions, strategy, initial_capital, call>>

Next ==
    \/ RunStart
    \/ RaiseKeyError
    \/ RaiseValueError
    \/ Iterate
    \/ Finish

Spec == Init /\ [][Next]_vars

----------------------------------------------------------------------------
(* Direct calls of a sizer: strategy.calculate_position(signal,            *)
(* current_capital, current_price) on arguments of every sign.  The        *)
(* arguments are drawn initially, the call is then made once.  The engine  *)
(* stays as constructed.                                                   *)

\* the number of calls made on one sizer object
MaxCalls == 2

CallCapitals == {R(-5), Zero, Frac(1, 2), R(100)}
CallPrices == {R(-1), Zero, R(1), R(3), R(50)}

SizerInit ==
    /\ data = Rows(ShortTrade, <<0, -1>>)
    /\ predictions = generate_predictions(Rows(ShortTrade, <<0, -1>>))
    /\ strategy = AllIn
    /\ initial_capital = One
    /\ results = <<>>
    /\ pc = "idle"
    /\ i = 0
    /\ current_capital = NaN
    /\ equity_history = <<>>
    /\ trades = <<>>
    /\ outcome = NoOutcome
    /\ \E self \in Strategies, signal \in Signals, capital \in CallCapitals,
          price \in CallPrices, u \in Draws :
         call = [method |-> "calculate_position",
                 self |-> self,
                 signal |-> signal,
                 current_capital |-> capital,
                 current_price |-> price,
                 u |-> u,
                 earlier |-> <<>>,
                 result |-> <<>>]

CallCalculatePosition ==
    /\ call.method = "calculate_position"
    /\ call.result = <<>>
    /\ call' = [call EXCEPT !.result =
                   <<calculate_position(call.self, call.signal,
                                        call.current_capital,
                                        call.current_price, call.u)>>]
    /\ UNCHANGED engineVars

\* the same sizer object is called once more with the same arguments; the
\* call draws its own value of random.random()
CallAgain ==
    /\ call.method = "calculate_position"
    /\ call.result # <<>>
    /\ Len(call.earlier) < MaxCalls - 1
    /\ \E u \in Draws :
         call' = [call EXCEPT !.earlier = Append(@, call.result[1]),
                              !.u = u,
                              !.result = <<>>]
    /\ UNCHANGED engineVars

SizerNext ==
    \/ CallCalculatePosition
    \/ CallAgain

SizerSpec == SizerInit /\ [][SizerNext]_vars

----------------------------------------------------------------------------
(* Properties of a run, checked under Spec *)

\* a run has completed and its result is stored
Completed == results # <<>>

\* the Close column of the engine's series
Closes == [t \in 1..Len(data) |-> data[t].Close]

\* every close price of the series is positive
PositivePrices == \A t \in 1..Len(data) : data[t].Close > 0

\* the predictor was built from the series the engine runs on
SameSeries == DOMAIN predictions = 1..Len(data)

\* C1: for every completed run the reported total return is
\* (final_capital - initial_capital) / initial_capital * 100 with the capital
\* the engine was constructed with; closes [100, 110, 121] with the oracle,
\* the Full-Deployment sizer and starting capital 1 report 21.
C1_TotalReturnFromStartingCapital ==
    Completed =>
        /\ results[1].metrics.total_return =
               FMul(FDiv(FSub(results[1].final_capital, initial_capital),
                         initial_capital), Hundred)
        /\ (/\ Closes = Uptrend
            /\ SameSeries
            /\ predictions = <<1, 1, 0>>
            /\ strategy = AllIn
            /\ initial_capital = One) => results[1].metrics.total_return = R(21)

\* C2: a completed run yields an equity curve with exactly one point per
\* date of the series, in increasing date order, and the Total Days metric
\* is the number of dates.
C2_EquityCurveOnePointPerDate ==
    Completed =>
        /\ Len(results[1].equity_curve) = Len(data)
        /\ \A t \in 1..Len(data) : results[1].equity_curve[t].Date = t
        /\ results[1].metrics.n_days = Len(data)

C2_Witness ==
    /\ Completed
    /\ Len(data) = MaxLen
    /\ Len(results[1].equity_curve) = MaxLen

\* the dates 1..n whose signal is not neutral, in increasing order
RECURSIVE NonNeutralDates(_)
NonNeutralDates(n) ==
    IF n = 0 THEN <<>>
    ELSE IF predictions[n] # 0 THEN Append(NonNeutralDates(n - 1), n)
    ELSE NonNeutralDates(n - 1)

\* C3: after a completed run the trade ledger holds exactly one entry for
\* each non-final date whose signal is non-neutral, in increasing date
\* order, none for the final date and none with a neutral signal, and the
\* Number of Trades metric is the ledger's length.
C3_LedgerOneEntryPerNonNeutralDate ==
    Completed =>
        LET ledger == results[1].trades
        IN  /\ [k \in 1..Len(ledger) |-> ledger[k].date] =
                   NonNeutralDates(Len(data) - 1)
            /\ \A k \in 1..Len(ledger) :
                   /\ ledger[k].date # Len(data)
                   /\ ledger[k].signal # 0
                   /\ ledger[k].signal = predictions[ledger[k].date]
            /\ results[1].metrics.n_trades = Len(ledger)

\* a completed run that traded on the first date, skipped a neutral second
\* date and had a non-neutral signal source only before the final date
C3_Witness ==
    /\ Completed
    /\ Len(data) = 3
    /\ predictions[1] # 0
    /\ predictions[2] = 0
    /\ Len(results[1].trades) = 1

\* C4: the equity point of the first date holds the starting capital and
\* the equity point of the last date the capital after the last realized
\* move.
C4_FirstEquityPointIsStartingCapital ==
    Completed =>
        /\ results[1].equity_curve[1].Capital = results[1].initial_capital
        /\ results[1].equity_curve[Len(data)].Capital = results[1].final_capital

\* the signal source gives Neutral for every date of the series
AllNeutral == SameSeries /\ \A t \in 1..Len(data) : predictions[t] = 0

\* C5: when every signal is neutral and every price positive, a completed
\* run leaves final_capital equal to initial_capital, every equity point
\* equal to initial_capital and the ledger empty, whatever the sizer.
C5_NeutralSignalsConserveCapital ==
    (Completed /\ AllNeutral /\ PositivePrices) =>
        /\ results[1].final_capital = initial_capital
        /\ \A t \in 1..Len(data) :
               results[1].equity_curve[t].Capital = initial_capital
        /\ results[1].trades = <<>>

\* an all-neutral completed run of the stochastic sizer over changing prices
C5_Witness ==
    /\ Completed
    /\ AllNeutral
    /\ PositivePrices
    /\ strategy.kind = "Stochastic"
    /\ Len(data) = 3
    /\ data[1].Close # data[2].Close
    /\ initial_capital = R(2)
    /\ results[1].final_capital = R(2)

\* the fraction of capital a sizer exposes: 1 for Full-Deployment
ExposedFraction(self) == IF self.kind = "AllIn" THEN One ELSE self.percentage

\* the realized return the claim gives for a ledger entry, as a percentage
ClaimedReturnPct(self, entry, exit, position) ==
    LET base == IF position[1] > 0 THEN FDiv(FSub(exit, entry), entry)
                ELSE IF position[1] < 0 THEN FDiv(FSub(entry, exit), entry)
                ELSE Zero
    IN  FMul(FMul(base, ExposedFraction(self)), Hundred)

LedgerReturnsAsClaimed(ledger) ==
    \A k \in 1..Len(ledger) :
        ledger[k].return_pct =
            ClaimedReturnPct(strategy, ledger[k].price,
                             R(data[ledger[k].date + 1].Close),
                             ledger[k].position)

\* C9: the realized return of every trade is (exit - entry) / entry for a
\* positive position, (entry - exit) / entry for a negative one and 0 for a
\* zero one, scaled by f for Fixed-Fraction and Stochastic-Error and
\* unscaled for Full-Deployment, whatever the position's magnitude; closes
\* [50, 40] with a Down signal and Full-Deployment realize 0.20 and leave
\* initial * 1.20.
C9_RealizedReturnBySign ==
    /\ LedgerReturnsAsClaimed(trades)
    /\ Completed =>
        /\ LedgerReturnsAsClaimed(results[1].trades)
        /\ (Closes = ShortTrade /\ SameSeries /\ predictions[1] = -1
                /\ strategy = AllIn) =>
               /\ results[1].trades[1].return_pct = R(20)
               /\ results[1].trades[1].capital_after =
                      FMul(initial_capital, Frac(6, 5))
               /\ results[1].final_capital = FMul(initial_capital, Frac(6, 5))

\* the single short trade scenario has completed
C9_Witness ==
    /\ Completed
    /\ Closes = ShortTrade
    /\ predictions = <<-1, 0>>
    /\ strategy = AllIn
    /\ initial_capital = R(2)
    /\ FLt(results[1].trades[1].position, Zero)
    /\ results[1].final_capital = Frac(12, 5)

\* C10: when the signal source or the sizer raises during run(), the error
\* reaches the caller, run() returns no result, the partial equity curve
\* and ledger are dropped and the stored result stays as it was; the stored
\* result changes only when a run completes.
C10_FailedRunLeavesNoResult ==
    [][/\ (pc = "loop" /\ pc' = "raised") =>
            /\ results' = results
            /\ outcome'.status \in {"KeyError", "ValueError"}
            /\ outcome'.value = <<>>
            /\ equity_history' = <<>>
            /\ trades' = <<>>
       /\ results' # results =>
            /\ pc = "loop"
            /\ pc' = "returned"
            /\ i > Len(data)
            /\ outcome'.value = results']_vars

\* a run over three dates was aborted by the sizer on the second date, whose
\* price is 0, after the first date was processed and its trade recorded
C10_Witness ==
    /\ pc = "raised"
    /\ outcome.status = "ValueError"
    /\ results = <<>>
    /\ Len(data) = 3
    /\ SameSeries
    /\ data[1].Close > 0
    /\ predictions[1] # 0
    /\ data[2].Close = 0
    /\ predictions[2] # 0

----------------------------------------------------------------------------
(* Properties of a sizer call, checked under SizerSpec *)

\* calculate_position was called and has finished
Sized == call.method = "calculate_position" /\ call.result # <<>>

\* C6: for every sizer, signal and capital, size fails with the invalid
\* price error whenever price <= 0.
C6_NonPositivePriceAlwaysRejected ==
    (Sized /\ FLe(call.current_price, Zero)) => call.result[1].raised

\* C7: for every sizer and every positive price, size returns exactly 0
\* when current_capital <= 0 and when the signal is Neutral.
C7_FlatOnNoCapitalOrNeutral ==
    (/\ Sized
     /\ FGt(call.current_price, Zero)
     /\ (FLe(call.current_capital, Zero) \/ call.signal = 0)) =>
        call.result[1] = Return(Zero)

\* the stochastic sizer was asked to go long with capital -5
C7_Witness ==
    /\ Sized
    /\ call.self.kind = "Stochastic"
    /\ call.self.percentage = One
    /\ call.signal = 1
    /\ call.current_capital = R(-5)
    /\ call.current_price = R(50)
    /\ call.result[1] = Return(Zero)

\* C8: for positive capital and price and a non-neutral signal,
\* Full-Deployment returns signal * capital / price and Fixed-Fraction(f)
\* returns signal * (f * capital) / price, with the signal's sign whenever
\* f > 0; Fixed-Fraction(1) gives what Full-Deployment gives on every input.
C8_SizingFormulas ==
    Sized =>
        LET self == call.self
            signal == call.signal
            capital == call.current_capital
            price == call.current_price
            got == call.result[1]
        IN  /\ (FGt(capital, Zero) /\ FGt(price, Zero) /\ signal # 0) =>
                /\ self.kind = "AllIn" =>
                       got = Return(FMul(R(signal), FDiv(capital, price)))
                /\ self.kind = "Fixed" =>
                       got = Return(FDiv(FMul(R(signal),
                                              FMul(self.percentage, capital)),
                                         price))
                /\ (self.kind = "AllIn"
                       \/ (self.kind = "Fixed" /\ FGt(self.percentage, Zero))) =>
                       Sgn(got.value[1]) = signal
            /\ self = Fixed(One) =>
                   got = AllIn_calculate_position(signal, capital, price)

\* Fixed-Fraction(1/2) was asked to go short with capital 100 at price 50
C8_Witness ==
    /\ Sized
    /\ call.self = Fixed(Frac(1, 2))
    /\ call.signal = -1
    /\ call.current_capital = R(100)
    /\ call.current_price = R(50)
    /\ call.result[1] = Return(R(-1))

----------------------------------------------------------------------------
(* Further properties of a run, checked under Spec *)

\* C11: a bad data point is never silently skipped: when any date of the
\* series, the final one and the neutral ones included, has a close price
\* <= 0, run() aborts and produces no result.
C11_NonPositivePriceAbortsRun ==
    ~PositivePrices => (~Completed /\ pc # "returned")

\* the sign of the change from close(t) to close(t + 1)
CloseChange(t) == Sgn(data[t + 1].Close - data[t].Close)

\* C12 as stated: the oracle assigns to every non-final date t of its series
\* the sign of the change from close(t) to close(t + 1), and Neutral to the
\* final date, for every price series.
C12_OracleFollowsCloses ==
    \A t \in DOMAIN predictions :
        IF t < Len(predictions)
        THEN predictions[t] = CloseChange(t)
        ELSE predictions[t] = 0

\* C12 as amended: the oracle assigns to every non-final date t the sign of
\* the prior-close difference stored for date t + 1, which is the sign of
\* the change from close(t) to close(t + 1) whenever that stored difference
\* has the sign of the change; the final date gets Neutral.
C12_OracleFollowsCloseDiff ==
    \A t \in DOMAIN predictions :
        IF t < Len(predictions)
        THEN /\ predictions[t] = Sgn(data[t + 1].close_diff)
             /\ Sgn(data[t + 1].close_diff) = CloseChange(t) =>
                    predictions[t] = CloseChange(t)
        ELSE predictions[t] = 0

\* an oracle over a series that rises and then falls, with differences that
\* say so
C12_Witness ==
    /\ SameSeries
    /\ Closes = <<1, 3, 1>>
    /\ data[2].close_diff = 1
    /\ data[3].close_diff = -1
    /\ predictions = <<1, -1, 0>>

----------------------------------------------------------------------------
(* Direct calls of the signal source: predictor.predict(date) on dates     *)
(* inside and outside the series the predictor was built from.  The date   *)
(* is drawn initially, the call is then made once.                         *)

\* the dates asked for: every date of the longest series, one before, one after
QueryDates == 0..(MaxLen + 1)

PredictInit ==
    \E c \in Series :
      \E d \in [1..Len(c) -> Diffs] :
        \E date \in QueryDates :
          /\ d[1] = 0
          /\ data = Rows(c, d)
          /\ predictions = generate_predictions(Rows(c, d))
          /\ strategy = AllIn
          /\ initial_capital = One
          /\ results = <<>>
          /\ pc = "idle"
          /\ i = 0
          /\ current_capital = NaN
          /\ equity_history = <<>>
          /\ trades = <<>>
          /\ outcome = NoOutcome
          /\ call = [method |-> "predict", date |-> date, result |-> <<>>]

\* predictor.predict(date): the KeyError or the signal; nothing is assigned
CallPredict ==
    /\ call.method = "predict"
    /\ call.result = <<>>
    /\ call' = [call EXCEPT !.result =
                   <<IF predict_raises(predictions, call.date)
                     THEN [raised |-> TRUE, value |-> 0]
                     ELSE [raised |-> FALSE,
                           value |-> predict(predictions, call.date)]>>]
    /\ UNCHANGED engineVars

PredictNext == CallPredict

PredictSpec == PredictInit /\ [][PredictNext]_vars

\* predict was called and has finished
Predicted == call.method = "predict" /\ call.result # <<>>

----------------------------------------------------------------------------
(* Constructors: FixedPercentageStrategy(percentage),                      *)
(* StochasticErrorStrategy(error_rate, percentage) and Backtester(data,    *)
(* predictor, strategy, initial_capital).  A constructor call gives        *)
(* [raised, value]: raised is its ValueError, value the object built.      *)

Built(object) == [raised |-> FALSE, value |-> <<object>>]
NotBuilt == [raised |-> TRUE, value |-> <<>>]

\* FixedPercentageStrategy.__init__
Fixed_init(percentage) ==
    IF ~(FLe(Zero, percentage) /\ FLe(percentage, One)) THEN NotBuilt
    ELSE Built(Fixed(percentage))

\* faulty variant: the second test repeats the first and error_rate is not tested
Stochastic_init_PercentageTwice(error_rate, percentage) ==
    IF ~(FLe(Zero, percentage) /\ FLe(percentage, One)) THEN NotBuilt
    ELSE IF ~(FLe(Zero, percentage) /\ FLe(percentage, One)) THEN NotBuilt
    ELSE Built(Stochastic(error_rate, percentage))

\* StochasticErrorStrategy.__init__
Stochastic_init(error_rate, percentage) ==
    IF ~(FLe(Zero, percentage) /\ FLe(percentage, One)) THEN NotBuilt
    ELSE IF ~(FLe(Zero, error_rate) /\ FLe(error_rate, One)) THEN NotBuilt
    ELSE Built(Stochastic(error_rate, percentage))

\* Backtester.__init__, lines 103-110: the two validations
RequiredColumns == {"Date", "Close", "close_diff"}

\* faulty variant: a starting capital of 0 is accepted
Backtester_init_ZeroCapital(columns, capital) ==
    LET missing_columns == RequiredColumns \ columns
    IN  IF missing_columns # {} THEN "MissingColumns"
        ELSE IF FLt(capital, Zero) THEN "InvalidCapital"
        ELSE "ok"

Backtester_init(columns, capital) ==
    LET missing_columns == RequiredColumns \ columns
    IN  IF missing_columns # {} THEN "MissingColumns"
        ELSE IF FLe(capital, Zero) THEN "InvalidCapital"
        ELSE "ok"

\* constructor arguments: fractions inside, on and outside [0, 1]; column
\* sets with and without each required column; capitals of every sign
ParamValues == {R(-1), Frac(-1, 2), Zero, Frac(1, 2), One, Frac(3, 2), R(2)}
ColumnSets == SUBSET {"Date", "Close", "close_diff", "Volume"}
CapitalArgs == {R(-1), Zero, Frac(1, 2), One, R(2)}

\* the rows of the series the engine is constructed on
ConstructRows == Rows(Uptrend, <<0, 1, 1>>)

ConstructInit ==
    /\ data = <<>>
    /\ predictions = generate_predictions(ConstructRows)
    /\ strategy = AllIn
    /\ initial_capital = NaN
    /\ results = <<>>
    /\ pc = "unconstructed"
    /\ i = 0
    /\ current_capital = NaN
    /\ equity_history = <<>>
    /\ trades = <<>>
    /\ outcome = NoOutcome
    /\ \/ \E f \in ParamValues :
            call = [method |-> "FixedPercentageStrategy",
                    percentage |-> f, result |-> <<>>]
       \/ \E p \in ParamValues, f \in ParamValues :
            call = [method |-> "StochasticErrorStrategy",
                    error_rate |-> p, percentage |-> f, result |-> <<>>]
       \/ \E cols \in ColumnSets, cap \in CapitalArgs :
            call = [method |-> "Backtester", columns |-> cols,
                    initial_capital |-> cap, result |-> <<>>]

CallFixedInit ==
    /\ call.method = "FixedPercentageStrategy"
    /\ call.result = <<>>
    /\ call' = [call EXCEPT !.result = <<Fixed_init(call.percentage)>>]
    /\ UNCHANGED engineVars

CallStochasticInit ==
    /\ call.method = "StochasticErrorStrategy"
    /\ call.result = <<>>
    /\ call' = [call EXCEPT !.result =
                   <<Stochastic_init(call.error_rate, call.percentage)>>]
    /\ UNCHANGED engineVars

\* Backtester.__init__: on success the attributes are set and results is None
CallBacktesterInit ==
    /\ call.method = "Backtester"
    /\ call.result = <<>>
    /\ LET r == Backtester_init(call.columns, call.initial_capital)
       IN  /\ call' = [call EXCEPT !.result = <<r>>]
           /\ IF r = "ok"
              THEN /\ data' = ConstructRows
                   /\ initial_capital' = call.initial_capital
                   /\ results' = <<>>
                   /\ pc' = "idle"
              ELSE UNCHANGED <<data, initial_capital, results, pc>>
    /\ UNCHANGED <<predictions, strategy, i, current_capital, equity_history,
                   trades, outcome>>

\* after a successful construction the engine can be run
ConstructNext ==
    \/ CallFixedInit
    \/ CallStochasticInit
    \/ CallBacktesterInit
    \/ RunStart
    \/ Iterate
    \/ Finish

ConstructSpec == ConstructInit /\ [][ConstructNext]_vars

\* a constructor was called and has finished
Constructed(method) == call.method = method /\ call.result # <<>>

InUnit(x) == FLe(Zero, x) /\ FLe(x, One)

\* C14: Fixed-Fraction(f) fails to construct exactly when f is outside
\* [0, 1], Stochastic-Error(f, p) exactly when f or p is outside [0, 1]; 0
\* and 1 are accepted for both parameters.
C14_FractionsValidatedAtConstruction ==
    /\ Constructed("FixedPercentageStrategy") =>
         /\ call.result[1].raised <=> ~InUnit(call.percentage)
         /\ ~call.result[1].raised =>
                call.result[1].value[1].percentage = call.percentage
    /\ Constructed("StochasticErrorStrategy") =>
         /\ call.result[1].raised <=>
                (~InUnit(call.percentage) \/ ~InUnit(call.error_rate))
         /\ ~call.result[1].raised =>
                /\ call.result[1].value[1].percentage = call.percentage
                /\ call.result[1].value[1].error_rate = call.error_rate

\* Stochastic-Error was constructed with the boundary values p = 1, f = 0
C14_Witness ==
    /\ Constructed("StochasticErrorStrategy")
    /\ call.error_rate = One
    /\ call.percentage = Zero
    /\ ~call.result[1].raised

\* C15: constructing the engine fails when a required field (date, close
\* price, prior-close difference) is absent and when the starting capital is
\* not strictly positive; otherwise it succeeds and no result is stored
\* until run() is called.
C15_EngineConstructionValidated ==
    /\ Constructed("Backtester") =>
         /\ (call.result[1] # "ok") <=>
                (\/ ~(RequiredColumns \subseteq call.columns)
                 \/ ~FGt(call.initial_capital, Zero))
         /\ call.result[1] # "ok" => (pc = "unconstructed" /\ data = <<>>)
         /\ call.result[1] = "ok" => initial_capital = call.initial_capital
    /\ pc \in {"unconstructed", "idle"} => results = <<>>

\* the engine was constructed with every field and capital 1/2, not yet run
C15_Witness ==
    /\ Constructed("Backtester")
    /\ call.result[1] = "ok"
    /\ call.initial_capital = Frac(1, 2)
    /\ pc = "idle"
    /\ results = <<>>

----------------------------------------------------------------------------
(* The report of a completed run, checked under Spec *)

Report == results[1].metrics
Curve == CapitalColumn(results[1].equity_curve)
Ledger == results[1].trades

\* the largest capital of the curve up to and including date t
PeakUpTo(caps, t) ==
    CHOOSE m \in {caps[k] : k \in 1..t} : \A k \in 1..t : FLe(caps[k], m)

\* 100 times the least (capital[t] - peak[t]) / peak[t]
DrawdownFromPeaks(caps) ==
    LET ratios == {FDiv(FSub(caps[t], PeakUpTo(caps, t)), PeakUpTo(caps, t)) :
                       t \in 1..Len(caps)}
    IN  FMul(CHOOSE r \in ratios : \A q \in ratios : FLe(r, q), Hundred)

NeverDeclines(caps) == \A t \in 2..Len(caps) : FLe(caps[t - 1], caps[t])

\* C16: the max_drawdown of every completed run is a number <= 0, equal to
\* 100 times the least relative distance of the capital below its running
\* peak, and 0 when the equity curve never declines; for the curve
\* [1.0, 1.5, 0.75, 1.2] it is -50.
C16_DrawdownFromRunningPeak ==
    /\ MaxDrawdown(<<One, Frac(3, 2), Frac(3, 4), Frac(6, 5)>>) = R(-50)
    /\ Completed =>
         /\ FLe(Report.max_drawdown, Zero)
         /\ Report.max_drawdown = DrawdownFromPeaks(Curve)
         /\ NeverDeclines(Curve) => Report.max_drawdown = Zero

\* the relative changes between consecutive equity points
CurveChanges(caps) ==
    {FDiv(FSub(caps[t], caps[t - 1]), caps[t - 1]) : t \in 2..Len(caps)}

\* the reported ratio mean / std * sqrt(252) is the number 0
SharpeIsZero(s) == s.num = Zero /\ FGt(s.var, Zero)

\* C17: a completed run with an empty ledger reports win_rate, avg_win and
\* avg_loss 0; a run whose equity curve has a single point, or whose daily
\* returns all equal one value, reports sharpe_ratio 0 (as does a sample of
\* equal non-zero returns).
C17_DegenerateMetricsAreZero ==
    /\ SharpeIsZero(SharpeRatio(<<Frac(1, 2), Frac(1, 2)>>))
    /\ Completed =>
         /\ Ledger = <<>> =>
              /\ Report.win_rate = Zero
              /\ Report.avg_win = Zero
              /\ Report.avg_loss = Zero
         /\ (Len(Curve) = 1 \/ Cardinality(CurveChanges(Curve)) = 1) =>
              SharpeIsZero(Report.sharpe_ratio)

\* a completed run over three dates with no trade and a flat equity curve
C17_Witness ==
    /\ Completed
    /\ Ledger = <<>>
    /\ Len(Curve) = 3
    /\ CurveChanges(Curve) = {Zero}
    /\ SharpeIsZero(Report.sharpe_ratio)

\* every metric of the report that is a single number
NumericMetrics ==
    <<Report.total_return, Report.max_drawdown, Report.win_rate,
      Report.avg_win, Report.avg_loss, Report.final_capital,
      Report.annualized_return.base, Report.sharpe_ratio.num,
      Report.sharpe_ratio.var>>

\* C18: every completed run over positive prices reports only defined
\* numbers, also when the capital reaches zero, when there are no trades,
\* zero variance or a single date; and the capital is a defined number after
\* every processed date.
C18_MetricsAlwaysDefined ==
    /\ pc = "loop" => Finite(current_capital)
    /\ \A t \in 1..Len(equity_history) : Finite(equity_history[t].Capital)
    /\ (Completed /\ PositivePrices) =>
         \A k \in 1..Len(NumericMetrics) : Finite(NumericMetrics[k])

\* the ledger positions with a positive / a negative return_pct
Winners(ledger) == {k \in 1..Len(ledger) : FGt(ledger[k].return_pct, Zero)}
Losers(ledger) == {k \in 1..Len(ledger) : FLt(ledger[k].return_pct, Zero)}

RECURSIVE SumReturnPct(_, _)
SumReturnPct(ledger, ks) ==
    IF ks = {} THEN Zero
    ELSE LET k == CHOOSE x \in ks : TRUE
         IN  FAdd(ledger[k].return_pct, SumReturnPct(ledger, ks \ {k}))

\* the mean return_pct over the positions ks, 0 when there are none
MeanReturnPct(ledger, ks) ==
    IF ks = {} THEN Zero
    ELSE FDiv(SumReturnPct(ledger, ks), R(Cardinality(ks)))

\* C19: for a non-empty ledger win_rate is 100 * (trades with return_pct > 0)
\* / (trades), avg_win and avg_loss are the mean return_pct of the trades
\* with return_pct > 0 and < 0 (0 when there are none); a trade with
\* return_pct 0 counts only in the denominator of win_rate, so
\* 0 <= win_rate <= 100, avg_win >= 0 and avg_loss <= 0.
C19_TradeStatistics ==
    (Completed /\ Ledger # <<>>) =>
        /\ Report.win_rate =
               FDiv(FMul(Hundred, R(Cardinality(Winners(Ledger)))),
                    R(Len(Ledger)))
        /\ Report.avg_win = MeanReturnPct(Ledger, Winners(Ledger))
        /\ Report.avg_loss = MeanReturnPct(Ledger, Losers(Ledger))
        /\ FLe(Zero, Report.win_rate) /\ FLe(Report.win_rate, Hundred)
        /\ FLe(Zero, Report.avg_win)
        /\ FLe(Report.avg_loss, Zero)

\* a ledger of one winning trade and one trade with return_pct 0
C19_Witness ==
    /\ Completed
    /\ Len(Ledger) = 2
    /\ Cardinality(Winners(Ledger)) = 1
    /\ \E k \in 1..2 : Ledger[k].return_pct = Zero
    /\ Report.win_rate = R(50)
    /\ FGt(Report.avg_win, Zero)
    /\ Report.avg_loss = Zero

\* the capital before date t of an equity curve: the previous point, or the
\* starting capital before the first date
CapitalBefore(curve, t) ==
    IF t = 1 THEN initial_capital ELSE curve[t - 1].Capital

\* the position held over date t: the ledger's entry for t, or 0 for a date
\* without one
PositionOn(ledger, t) ==
    IF \E k \in 1..Len(ledger) : ledger[k].date = t
    THEN ledger[CHOOSE k \in 1..Len(ledger) : ledger[k].date = t].position
    ELSE Zero

\* every point of the curve holds the capital after its date's move
CurveCompounds(curve, ledger) ==
    /\ \A t \in 1..Len(curve) :
         /\ curve[t].Date = t
         /\ IF t < Len(data)
            THEN curve[t].Capital =
                   FMul(CapitalBefore(curve, t),
                        FAdd(One,
                             FDiv(ClaimedReturnPct(strategy, R(data[t].Close),
                                                   R(data[t + 1].Close),
                                                   PositionOn(ledger, t)),
                                  Hundred)))
            ELSE curve[t].Capital = CapitalBefore(curve, t)
    /\ \A k \in 1..Len(ledger) :
         /\ ledger[k].date \in 1..Len(curve)
         /\ ledger[k].capital_before = CapitalBefore(curve, ledger[k].date)
         /\ ledger[k].capital_after = curve[ledger[k].date].Capital

\* C20: on every non-final date the capital carried forward is
\* capital_before * (1 + realized_return(price(t), price(t+1), position(t))),
\* on the final date it is unchanged, the equity point of date t holds that
\* capital, and the result's final_capital equals the last equity point and
\* the final_capital metric.
C20_CapitalCompoundsDateByDate ==
    /\ pc = "loop" =>
         /\ CurveCompounds(equity_history, trades)
         /\ Len(equity_history) = i - 1
         /\ current_capital = CapitalBefore(equity_history, i)
    /\ Completed =>
         /\ CurveCompounds(results[1].equity_curve, Ledger)
         /\ results[1].final_capital = Curve[Len(Curve)]
         /\ results[1].final_capital = Report.final_capital

\* a completed run from capital 2 with a winning trade, then a losing one
C20_Witness ==
    /\ Completed
    /\ initial_capital = R(2)
    /\ Len(Curve) = 3
    /\ FGt(Curve[1], R(2))
    /\ FLt(Curve[2], Curve[1])
    /\ Curve[3] = Curve[2]
    /\ results[1].final_capital = Curve[3]

----------------------------------------------------------------------------
(* The stochastic sizer against the fixed-fraction sizer, under SizerSpec *)

\* what Fixed-Fraction(f) returns for the arguments of the call
FixedOutcome ==
    Fixed_calculate_position(Fixed(call.self.percentage), call.signal,
                             call.current_capital, call.current_price)

\* the outcome with the position's direction inverted
Negated(r) == IF r.raised THEN r ELSE Return(FNeg(r.value))

\* C21: Stochastic-Error(f, p) only ever changes the direction of a
\* non-neutral signal: every result is the Fixed-Fraction(f) position or its
\* negation; with p = 0 it is the Fixed-Fraction(f) position on every call,
\* with p = 1 its negation on every call, a Neutral signal always yields 0,
\* and a call leaves the sizer as it was, so that a later call is decided by
\* its own draw alone.
C21_StochasticOnlyFlipsDirection ==
    /\ [](call.method = "calculate_position" /\ call.self.kind = "Stochastic" =>
            LET seen == call.earlier \o call.result
            IN  \A k \in 1..Len(seen) :
                  /\ seen[k] \in {FixedOutcome, Negated(FixedOutcome)}
                  /\ call.self.error_rate = Zero => seen[k] = FixedOutcome
                  /\ call.self.error_rate = One =>
                         seen[k] = Negated(FixedOutcome)
                  /\ call.signal = 0 => seen[k] = Return(Zero))
    /\ [][call.method = "calculate_position" =>
            /\ call'.self = call.self
            /\ (call.result = <<>> /\ call.self.kind = "Stochastic") =>
                   call'.result[1] =
                       IF FLt(call.u, call.self.error_rate)
                       THEN Negated(FixedOutcome) ELSE FixedOutcome]_vars

\* Stochastic-Error(1/2, 1/2) inverted a long signal on its first call and
\* kept it on the second call with the same arguments
C21_Witness ==
    /\ Sized
    /\ call.self = Stochastic(Frac(1, 2), Frac(1, 2))
    /\ call.signal = 1
    /\ call.current_capital = R(100)
    /\ call.current_price = R(50)
    /\ call.earlier = <<Return(R(-1))>>
    /\ call.result = <<Return(R(1))>>

----------------------------------------------------------------------------
(* Two engines on the same series that share one signal source and one     *)
(* deterministic sizer.  The first engine's run is the run of Spec; the    *)
(* second engine and the locals of its run() are held in call.             *)

\* the sizers that draw no random number
DeterministicStrategies == {AllIn, Fixed(Frac(1, 2))}

\* run(), lines 139-141: the locals of a new call of run()
NewFrame(capital) ==
    [i |-> 1, current_capital |-> capital, equity_history |-> <<>>,
     trades |-> <<>>]

IdleFrame ==
    [i |-> 0, current_capital |-> NaN, equity_history |-> <<>>, trades |-> <<>>]

\* run(), lines 147-189: one iteration of the loop on the locals in frame
LoopBody(frame) ==
    LET date == frame.i
        current_price == R(data[date].Close)
        signal == predict(predictions, date)
        capital_before == frame.current_capital
        sized == calculate_position(strategy, signal, capital_before,
                                    current_price, Zero)
        position == sized.value
        has_next == HasNext(date, Len(data))
        next_price == R(data[IF has_next THEN date + 1 ELSE date].Close)
        trade_return == get_return(strategy, current_price, next_price,
                                   position)
        capital_after == IF has_next
                         THEN UpdateCapital(capital_before, trade_return)
                         ELSE capital_before
        trade == [date |-> date,
                  signal |-> signal,
                  price |-> current_price,
                  position |-> position,
                  capital_before |-> capital_before,
                  capital_after |-> capital_after,
                  return_pct |-> FMul(trade_return, Hundred)]
    IN  [raised |-> sized.raised,
         frame |-> [i |-> date + 1,
                    current_capital |-> capital_after,
                    equity_history |->
                        RecordEquity(frame.equity_history, date, capital_after),
                    trades |-> IF has_next
                               THEN RecordTrade(frame.trades, signal, trade)
                               ELSE frame.trades]]

\* run(), lines 191-206: the result built from the locals
BuildResults(frame, capital) ==
    [equity_curve |-> frame.equity_history,
     trades |-> frame.trades,
     metrics |-> calculate_metrics(frame.equity_history, frame.trades),
     initial_capital |-> capital,
     final_capital |-> frame.current_capital]

\* the outcome of run() on an engine with starting capital `capital` when
\* no other run is active
RECURSIVE RunLoop(_, _)
RunLoop(frame, capital) ==
    IF frame.i > Len(data)
    THEN [status |-> "returned", value |-> <<BuildResults(frame, capital)>>]
    ELSE IF LoopBody(frame).raised
    THEN [status |-> "ValueError", value |-> <<>>]
    ELSE RunLoop(LoopBody(frame).frame, capital)

RunAlone(capital) == RunLoop(NewFrame(capital), capital)

\* the series the two engines run on: every series of one or two dates, and
\* three-date series that rise, fall, and hold a price of 0
IsolationSeries ==
    [1..1 -> Prices] \cup [1..2 -> Prices]
        \cup {Uptrend, ShortTrade, PriceDoubles, <<1, 3, 1>>, <<3, 1, 0>>,
              <<1, 0, 1>>}

IsolationInit ==
    \E c \in IsolationSeries :
      \E d \in [1..Len(c) -> Diffs] :
        \E st \in DeterministicStrategies :
          \E cap \in {One}, cap2 \in Capitals :
            /\ d[1] = 0
            /\ data = Rows(c, d)
            /\ predictions = generate_predictions(Rows(c, d))
            /\ strategy = st
            /\ initial_capital = cap
            /\ results = <<>>
            /\ pc = "idle"
            /\ i = 0
            /\ current_capital = NaN
            /\ equity_history = <<>>
            /\ trades = <<>>
            /\ outcome = NoOutcome
            /\ call = [method |-> "run",
                       initial_capital |-> cap2,
                       pc |-> "idle",
                       frame |-> IdleFrame,
                       outcome |-> NoOutcome]

\* the second engine's run() is called
RunStart2 ==
    /\ call.method = "run"
    /\ call.pc = "idle"
    /\ call' = [call EXCEPT !.pc = "loop",
                            !.frame = NewFrame(call.initial_capital)]
    /\ UNCHANGED engineVars

\* the second run's sizer raises ValueError; its locals are dropped
RaiseValueError2 ==
    /\ call.method = "run"
    /\ call.pc = "loop"
    /\ call.frame.i <= Len(data)
    /\ LoopBody(call.frame).raised
    /\ call' = [call EXCEPT !.pc = "raised",
                            !.frame = IdleFrame,
                            !.outcome = [status |-> "ValueError",
                                         value |-> <<>>]]
    /\ UNCHANGED engineVars

\* faulty variant: the capital accumulator is one cell used by both runs
Iterate2_SharedAccumulator ==
    /\ call.method = "run"
    /\ call.pc = "loop"
    /\ call.frame.i <= Len(data)
    /\ pc = "loop"
    /\ LET mine == [call.frame EXCEPT !.current_capital = current_capital]
       IN  /\ ~LoopBody(mine).raised
           /\ call' = [call EXCEPT !.frame = LoopBody(mine).frame]
           /\ current_capital' = LoopBody(mine).frame.current_capital
    /\ UNCHANGED <<data, predictions, strategy, initial_capital, results, pc,
                   i, equity_history, trades, outcome>>

\* one iteration of the second run's loop
Iterate2 ==
    /\ call.method = "run"
    /\ call.pc = "loop"
    /\ call.frame.i <= Len(data)
    /\ ~LoopBody(call.frame).raised
    /\ call' = [call EXCEPT !.frame = LoopBody(call.frame).frame]
    /\ UNCHANGED engineVars

\* the second run returns its result
Finish2 ==
    /\ call.method = "run"
    /\ call.pc = "loop"
    /\ call.frame.i > Len(data)
    /\ call' = [call EXCEPT
                  !.pc = "returned",
                  !.frame = IdleFrame,
                  !.outcome = [status |-> "returned",
                               value |-> <<BuildResults(call.frame,
                                                        call.initial_capital)>>]]
    /\ UNCHANGED engineVars

\* the steps of the two runs in any order
IsolationNext ==
    \/ RunStart
    \/ RaiseValueError
    \/ Iterate
    \/ Finish
    \/ RunStart2
    \/ RaiseValueError2
    \/ Iterate2
    \/ Finish2

IsolationSpec == IsolationInit /\ [][IsolationNext]_vars

\* C22: when the per-date steps of two runs that share the signal source
\* and a deterministic sizer are interleaved in any order, each run gives
\* the equity curve, ledger and final capital it gives alone, and no step
\* of a run modifies the signal source, the sizer or the series.
C22_InterleavedRunsAreIsolated ==
    /\ [](/\ pc \in {"returned", "raised"} =>
               outcome = RunAlone(initial_capital)
          /\ call.pc \in {"returned", "raised"} =>
               call.outcome = RunAlone(call.initial_capital))
    /\ [][/\ predictions' = predictions
          /\ strategy' = strategy
          /\ data' = data]_vars

\* the second run, from capital 2, has returned its two trades while the
\* first run, from capital 1, is before its last date
C22_Witness ==
    /\ Len(data) = 3
    /\ pc = "loop"
    /\ i = 3
    /\ initial_capital = One
    /\ Len(trades) = 2
    /\ call.pc = "returned"
    /\ call.initial_capital = R(2)
    /\ Len(call.outcome.value[1].trades) = 2
    /\ call.outcome.value[1].final_capital # R(2)
    /\ call.outcome.value[1].final_capital # current_capital

----------------------------------------------------------------------------
(* Further properties of the ledger and the capital, checked under Spec *)

\* the ledger is a chain of capital from `start` to `final`
CapitalChain(ledger, start, final) ==
    /\ \A k \in 1..Len(ledger) :
         /\ ledger[k].capital_before =
                (IF k = 1 THEN start ELSE ledger[k - 1].capital_after)
         /\ ledger[k].capital_after =
                FMul(ledger[k].capital_before,
                     FAdd(One, FDiv(ledger[k].return_pct, Hundred)))
    /\ final = (IF ledger = <<>> THEN start
                ELSE ledger[Len(ledger)].capital_after)

\* C23: the first trade's capital_before is the initial capital, each later
\* trade's capital_before is the previous trade's capital_after, every trade
\* has capital_after = capital_before * (1 + return_pct / 100), and
\* final_capital is the last trade's capital_after, or the initial capital
\* when there is no trade.
C23_LedgerIsCapitalChain ==
    /\ pc = "loop" => CapitalChain(trades, initial_capital, current_capital)
    /\ Completed =>
         CapitalChain(Ledger, results[1].initial_capital,
                      results[1].final_capital)

\* a completed run of two trades that both changed the capital
C23_Witness ==
    /\ Completed
    /\ Len(Ledger) = 2
    /\ Ledger[1].capital_after # Ledger[1].capital_before
    /\ Ledger[2].capital_before = Ledger[1].capital_after
    /\ Ledger[2].capital_after # Ledger[2].capital_before
    /\ results[1].final_capital = Ledger[2].capital_after

\* every capital recorded by the run, in progress or completed
RecordedCapitals ==
    {equity_history[t].Capital : t \in 1..Len(equity_history)}
        \cup (IF Completed THEN {Curve[t] : t \in 1..Len(Curve)} ELSE {})

\* no close is more than twice the close of the date before
NoCloseMoreThanDoubles ==
    \A t \in 1..(Len(data) - 1) : data[t + 1].Close <= 2 * data[t].Close

\* C24, as stated: with every close positive and every sizer fraction in
\* [0, 1], the capital of every equity point is >= 0.
C24_CapitalNeverNegative ==
    PositivePrices => \A c \in RecordedCapitals : FLe(Zero, c)

\* C24, amended: with every close positive, every sizer fraction in [0, 1]
\* and no close more than twice the previous close, the capital of every
\* equity point is >= 0.
C24_CapitalNeverNegativeUnlessCloseMoreThanDoubles ==
    (PositivePrices /\ NoCloseMoreThanDoubles) =>
        \A c \in RecordedCapitals : FLe(Zero, c)

\* a full short over a close that exactly doubles: the capital is 0, not less
C24_Witness ==
    /\ Completed
    /\ Closes = PriceDoubles
    /\ strategy = AllIn
    /\ Len(Ledger) = 1
    /\ FLt(Ledger[1].position, Zero)
    /\ Curve = <<Zero, Zero>>

\* from the first equity point <= 0 on, the curve keeps that capital and
\* every trade of a later date is flat; non-neutral dates are still recorded
AbsorbedAtOrBelowZero(curve, ledger) ==
    \A t \in 1..Len(curve) :
        FLe(curve[t].Capital, Zero) =>
            /\ \A later \in (t + 1)..Len(curve) :
                 /\ curve[later].Capital = curve[t].Capital
                 /\ (later < Len(data) /\ predictions[later] # 0) =>
                        \E k \in 1..Len(ledger) : ledger[k].date = later
            /\ \A k \in 1..Len(ledger) :
                 ledger[k].date > t =>
                     /\ ledger[k].position = Zero
                     /\ ledger[k].return_pct = Zero

\* C25: over positive prices, once the capital is <= 0 after a date it keeps
\* that value on every later date, and every trade recorded on a later date
\* has position 0 and return_pct 0; such trades are still recorded for
\* non-neutral signals.
C25_NonPositiveCapitalIsAbsorbing ==
    PositivePrices =>
        /\ AbsorbedAtOrBelowZero(equity_history, trades)
        /\ Completed =>
               AbsorbedAtOrBelowZero(results[1].equity_curve, Ledger)

\* the capital went negative on the first date and a flat trade was
\* recorded on the second
C25_Witness ==
    /\ Completed
    /\ PositivePrices
    /\ Len(Curve) = 3
    /\ FLt(Curve[1], Zero)
    /\ Curve[3] = Curve[1]
    /\ Len(Ledger) = 2
    /\ Ledger[2].date = 2
    /\ Ledger[2].position = Zero
    /\ Ledger[2].return_pct = Zero

\* every close_diff has the sign of the change of the close price
DiffsFollowCloses ==
    \A t \in 2..Len(data) :
        Sgn(data[t].close_diff) = Sgn(data[t].Close - data[t - 1].Close)

\* the oracle is built from the engine's series, whose close_diff is true to
\* its closes, and the sizer is Full-Deployment or Fixed-Fraction
OracleOnTrueSeries ==
    /\ SameSeries
    /\ DiffsFollowCloses
    /\ strategy.kind \in {"AllIn", "Fixed"}

NoTradeLoses(curve, ledger) ==
    /\ \A k \in 1..Len(ledger) : FLe(Zero, ledger[k].return_pct)
    /\ \A t \in 1..Len(curve) :
         FLe(IF t = 1 THEN initial_capital ELSE curve[t - 1].Capital,
             curve[t].Capital)

\* some trade of the ledger was held over a change of the close price
SomeTradeMoved(ledger) ==
    \E k \in 1..Len(ledger) :
        data[ledger[k].date + 1].Close # data[ledger[k].date].Close

\* C26, as stated: with the oracle on a true series and Full-Deployment or
\* Fixed-Fraction, every trade has return_pct >= 0, the equity curve never
\* decreases, max_drawdown is 0, and win_rate is 100 whenever a trade has a
\* non-zero price move.
C26_OracleNeverLoses ==
    OracleOnTrueSeries =>
        /\ NoTradeLoses(equity_history, trades)
        /\ Completed =>
             /\ NoTradeLoses(results[1].equity_curve, Ledger)
             /\ Report.max_drawdown = Zero
             /\ SomeTradeMoved(Ledger) => Report.win_rate = Hundred

\* C26, amended: the same, with win_rate 100 only for a fraction f > 0; with
\* f = 0 every trade has return_pct 0 and win_rate is 0.
C26_OracleNeverLosesWinsWithExposure ==
    OracleOnTrueSeries =>
        /\ NoTradeLoses(equity_history, trades)
        /\ Completed =>
             /\ NoTradeLoses(results[1].equity_curve, Ledger)
             /\ Report.max_drawdown = Zero
             /\ (SomeTradeMoved(Ledger) /\ FGt(ExposedFraction(strategy), Zero)) =>
                    Report.win_rate = Hundred
             /\ ExposedFraction(strategy) = Zero => Report.win_rate = Zero

\* Fixed-Fraction(1/2) with the oracle over the uptrend: two winning trades
C26_Witness ==
    /\ Completed
    /\ OracleOnTrueSeries
    /\ Closes = Uptrend
    /\ strategy = Fixed(Frac(1, 2))
    /\ Len(Ledger) = 2
    /\ Report.win_rate = Hundred
    /\ FGt(Curve[2], Curve[1])

====
